---------------------------- MODULE Spec2Model ----------------------------
(***************************************************************************)
(* A model of the my_regex crate: the pipeline                             *)
(*   tokenize -> insert_concat -> to_postfix -> build_nfa -> Regex::run    *)
(* Patterns and inputs are byte sequences (bytes are the integers 0..255). *)
(* State ids, group ids and input offsets are 0-based as in the source;    *)
(* TLA+ sequences are 1-based, so state id s is states[s + 1] and the      *)
(* byte at offset i is bytes[i + 1].                                       *)
(***************************************************************************)
EXTENDS Integers, Sequences, FiniteSets, TLC

(***************************************************************************)
(* Bounds of the model.                                                    *)
(***************************************************************************)
\* longest input, in bytes
MaxHay == 4
\* largest expression (in nodes) of the general pattern set
MaxNodes == 3
\* largest sub-expression (in nodes) used inside the pattern families
MaxSub == 2
\* longest pattern (in bytes) of the patterns enumerated byte by byte
MaxRaw == 2
\* longest pattern (in bytes) over the whole pattern alphabet, compile only
MaxPat == 3
\* longest text (in bytes) after the '[' of the bracketed-class patterns
MaxClass == 4
\* longest pattern (in bytes) over atoms, parentheses, '|' and quantifiers
MaxQuant == 5

(***************************************************************************)
(* Bytes the lexer distinguishes (token.rs, the match in tokenize).        *)
(***************************************************************************)
Ch == [ bslash |-> 92, dot |-> 46, lparen |-> 40, rparen |-> 41, alt |-> 124,
        star |-> 42, plus |-> 43, qmark |-> 63, lbrack |-> 91, rbrack |-> 93,
        caret |-> 94, dash |-> 45, a |-> 97, b |-> 98,
        tab |-> 9, lf |-> 10, cr |-> 13, vt |-> 11, ff |-> 12, space |-> 32,
        zero |-> 48, nine |-> 57, upA |-> 65, upZ |-> 90, z |-> 122,
        under |-> 95, d |-> 100, upD |-> 68, s |-> 115, upS |-> 83,
        w |-> 119, upW |-> 87, t |-> 116, n |-> 110, r |-> 114 ]

(***************************************************************************)
(* Tokens (token.rs, enum Token).                                          *)
(***************************************************************************)
TChar(b)          == [k |-> "Char", b |-> b]
TDot              == [k |-> "Dot"]
TLParen           == [k |-> "LParen"]
TRParen           == [k |-> "RParen"]
TAlt              == [k |-> "Alt"]
TStar             == [k |-> "Star"]
TPlus             == [k |-> "Plus"]
TQmark            == [k |-> "Qmark"]
TClass(ranges, neg) == [k |-> "Class", ranges |-> ranges, neg |-> neg]
TConcat           == [k |-> "Concat"]
TCapStart(g)      == [k |-> "CapStart", g |-> g]
TCapEnd(g)        == [k |-> "CapEnd", g |-> g]

\* Result<_, Error>: Ok(v) or Err(Error { kind, pos })
Ok(v)          == [ok |-> TRUE, v |-> v]
Err(kind, pos) == [ok |-> FALSE, kind |-> kind, pos |-> pos]

(***************************************************************************)
(* Lexer (token.rs).                                                       *)
(***************************************************************************)
DigitRanges == << <<Ch.zero, Ch.nine>> >>
SpaceRanges == << <<Ch.space, Ch.space>>, <<Ch.tab, Ch.tab>>, <<Ch.lf, Ch.lf>>,
                  <<Ch.cr, Ch.cr>>, <<Ch.vt, Ch.vt>>, <<Ch.ff, Ch.ff>> >>
WordRanges  == << <<Ch.zero, Ch.nine>>, <<Ch.upA, Ch.upZ>>, <<Ch.a, Ch.z>>,
                  <<Ch.under, Ch.under>> >>

\* Option<(ranges, neg)>: a one-element sequence, or the empty sequence
predefined_class(esc) ==
  IF      esc = Ch.d   THEN << TClass(DigitRanges, FALSE) >>
  ELSE IF esc = Ch.upD THEN << TClass(DigitRanges, TRUE) >>
  ELSE IF esc = Ch.s   THEN << TClass(SpaceRanges, FALSE) >>
  ELSE IF esc = Ch.upS THEN << TClass(SpaceRanges, TRUE) >>
  ELSE IF esc = Ch.w   THEN << TClass(WordRanges, FALSE) >>
  ELSE IF esc = Ch.upW THEN << TClass(WordRanges, TRUE) >>
  ELSE <<>>

\* the while loop of parse_class, from offset i with the ranges read so far
RECURSIVE parse_class_loop(_, _, _, _, _)
parse_class_loop(bytes, i, start, ranges, neg) ==
  IF i >= Len(bytes) THEN Err("UnbalancedClass", i)
  ELSE IF bytes[i + 1] = Ch.rbrack /\ i > start
       THEN Ok([tok |-> TClass(ranges, neg), j |-> i + 1])
  ELSE LET c1 == bytes[i + 1]
           i1 == i + 1
       IN IF i1 + 1 < Len(bytes) /\ bytes[i1 + 1] = Ch.dash
             /\ bytes[i1 + 2] # Ch.rbrack
          THEN parse_class_loop(bytes, i1 + 2, start,
                                Append(ranges, <<c1, bytes[i1 + 2]>>), neg)
          ELSE parse_class_loop(bytes, i1, start,
                                Append(ranges, <<c1, c1>>), neg)

\* a class parser for which a ']' closes the class wherever it stands
parse_class_anywhere(bytes, i) ==
  LET neg == i < Len(bytes) /\ bytes[i + 1] = Ch.caret
      i0  == IF neg THEN i + 1 ELSE i
  IN parse_class_loop(bytes, i0, i0 - 1, <<>>, neg)

parse_class(bytes, i) ==
  LET neg == i < Len(bytes) /\ bytes[i + 1] = Ch.caret
      i0  == IF neg THEN i + 1 ELSE i
  IN parse_class_loop(bytes, i0, i0, <<>>, neg)

\* the short escapes \t \n \r; any other escaped byte stands for itself
escaped_char(esc) ==
  IF      esc = Ch.t THEN Ch.tab
  ELSE IF esc = Ch.n THEN Ch.lf
  ELSE IF esc = Ch.r THEN Ch.cr
  ELSE esc

\* the while loop of tokenize, from offset i with the tokens read so far
RECURSIVE tokenize_loop(_, _, _)
tokenize_loop(bytes, i, out) ==
  IF i >= Len(bytes) THEN Ok(out)
  ELSE LET c == bytes[i + 1] IN
    IF c = Ch.bslash THEN
      IF i + 1 >= Len(bytes) THEN Err("UnexpectedEof", i + 1)
      ELSE LET esc == bytes[i + 2]
               pre == predefined_class(esc)
           IN IF pre # <<>>
              THEN tokenize_loop(bytes, i + 2, Append(out, pre[1]))
              ELSE tokenize_loop(bytes, i + 2,
                                 Append(out, TChar(escaped_char(esc))))
    ELSE IF c = Ch.dot    THEN tokenize_loop(bytes, i + 1, Append(out, TDot))
    ELSE IF c = Ch.lparen THEN tokenize_loop(bytes, i + 1, Append(out, TLParen))
    ELSE IF c = Ch.rparen THEN tokenize_loop(bytes, i + 1, Append(out, TRParen))
    ELSE IF c = Ch.alt    THEN tokenize_loop(bytes, i + 1, Append(out, TAlt))
    ELSE IF c = Ch.star   THEN tokenize_loop(bytes, i + 1, Append(out, TStar))
    ELSE IF c = Ch.plus   THEN tokenize_loop(bytes, i + 1, Append(out, TPlus))
    ELSE IF c = Ch.qmark  THEN tokenize_loop(bytes, i + 1, Append(out, TQmark))
    ELSE IF c = Ch.lbrack THEN
      LET r == parse_class(bytes, i + 1)
      IN IF r.ok THEN tokenize_loop(bytes, r.v.j, Append(out, r.v.tok))
         ELSE r
    ELSE tokenize_loop(bytes, i + 1, Append(out, TChar(c)))

tokenize(pattern) == tokenize_loop(pattern, 0, <<>>)

(***************************************************************************)
(* Concatenation inserter (parse.rs, insert_concat).                       *)
(***************************************************************************)
is_atom_start(t) == t.k \in {"Char", "Dot", "LParen", "Class"}

\* an is_atom_end that leaves the quantifiers out
is_atom_end_no_quant(t) == t.k \in {"Char", "Dot", "RParen", "Class"}

is_atom_end(t) ==
  t.k \in {"Char", "Dot", "RParen", "Class", "Star", "Plus", "Qmark"}

RECURSIVE insert_concat_loop(_, _, _)
insert_concat_loop(toks, j, out) ==
  IF j > Len(toks) THEN out
  ELSE LET t   == toks[j]
           sep == IF j > 1 /\ is_atom_end(toks[j - 1]) /\ is_atom_start(t)
                  THEN << TConcat >> ELSE <<>>
       IN insert_concat_loop(toks, j + 1, (out \o sep) \o << t >>)

insert_concat(toks) == insert_concat_loop(toks, 1, <<>>)

(***************************************************************************)
(* Postfix converter (parse.rs, to_postfix).                               *)
(* The converter's locals are one record:                                  *)
(*   out   the output tokens            ops  the operator stack (top last) *)
(*   lwo   last_was_operand             lwq  last_was_quant                *)
(*   ngid  next_group_id                res  the Err returned, if any      *)
(***************************************************************************)
is_bin_op(t) == t.k \in {"Concat", "Alt"}

\* a converter in which alternation binds tighter than concatenation
precedenceSwapped(op) ==
  IF op.k = "Concat" THEN 1 ELSE IF op.k = "Alt" THEN 2 ELSE 0

precedence(op) ==
  IF op.k = "Concat" THEN 2 ELSE IF op.k = "Alt" THEN 1 ELSE 0

\* enum Op: LParen { gid, mark } or Bin(token), each stacked with its pos
OpLParen(gid, mark, pos) ==
  [op |-> "LParen", gid |-> gid, mark |-> mark, tok |-> TLParen, pos |-> pos]
OpBin(tok, pos) ==
  [op |-> "Bin", gid |-> 0, mark |-> 0, tok |-> tok, pos |-> pos]

PostfixInit ==
  [out |-> <<>>, ops |-> <<>>, lwo |-> FALSE, lwq |-> FALSE, ngid |-> 1,
   res |-> Ok(<<>>)]

Pop(stack) == SubSeq(stack, 1, Len(stack) - 1)
Top(stack) == stack[Len(stack)]

\* Token::Char | Token::Dot | Token::Class
OperandStep(c, t) ==
  [c EXCEPT !.out = Append(c.out, t), !.lwo = TRUE, !.lwq = FALSE]

\* a converter that forgets next_group_id += 1
LParenStepNoInc(c, i) ==
  LET gid == c.ngid
      out == Append(c.out, TCapStart(gid))
  IN [c EXCEPT !.out  = out,
               !.ops  = Append(c.ops, OpLParen(gid, Len(out), i)),
               !.lwo  = TRUE,
               !.lwq  = FALSE]

\* Token::LParen
LParenStep(c, i) ==
  LET gid == c.ngid
      out == Append(c.out, TCapStart(gid))
  IN [c EXCEPT !.ngid = gid + 1,
               !.out  = out,
               !.ops  = Append(c.ops, OpLParen(gid, Len(out), i)),
               !.lwo  = TRUE,
               !.lwq  = FALSE]

\* the loop of the RParen arm: pop operators to the output up to the '('
RECURSIVE PopToLParen(_, _)
PopToLParen(out, ops) ==
  IF ops = <<>> THEN [found |-> FALSE, out |-> out, ops |-> ops,
                      gid |-> 0, mark |-> 0]
  ELSE LET top == Top(ops) IN
       IF top.op = "LParen"
       THEN [found |-> TRUE, out |-> out, ops |-> Pop(ops),
             gid |-> top.gid, mark |-> top.mark]
       ELSE PopToLParen(Append(out, top.tok), Pop(ops))

\* a converter without the empty-group arm
CloseGroupNoEmpty(out, gid, produced) ==
  out \o << TConcat, TCapEnd(gid), TConcat >>

\* a closed group whose CapEnd comes before the Concat that joins the body
CloseGroupEndFirst(out, gid, produced) ==
  IF produced = 0
  THEN out \o << TCapEnd(gid), TConcat >>
  ELSE out \o << TCapEnd(gid), TConcat, TConcat >>

\* what a closed group appends after its body: produced = out.len() - mark
CloseGroup(out, gid, produced) ==
  IF produced = 0
  THEN out \o << TCapEnd(gid), TConcat >>
  ELSE out \o << TConcat, TCapEnd(gid), TConcat >>

\* usize::saturating_sub
saturating_sub(x, y) == IF x >= y THEN x - y ELSE 0

\* Token::RParen
RParenStep(c, i) ==
  LET p == PopToLParen(c.out, c.ops) IN
  IF ~p.found THEN [c EXCEPT !.res = Err("UnbalancedParen", i)]
  ELSE [c EXCEPT !.out = CloseGroup(p.out, p.gid,
                                    saturating_sub(Len(p.out), p.mark)),
                 !.ops = p.ops,
                 !.lwo = TRUE,
                 !.lwq = FALSE]

\* a converter without the last_was_quant test
QuantStepChain(c, i, t) ==
  IF ~c.lwo THEN [c EXCEPT !.res = Err("DanglingQuantifier", i)]
  ELSE [c EXCEPT !.out = Append(c.out, t), !.lwo = TRUE, !.lwq = TRUE]

\* Token::Star | Token::Plus | Token::Qmark
QuantStep(c, i, t) ==
  IF ~c.lwo THEN [c EXCEPT !.res = Err("DanglingQuantifier", i)]
  ELSE IF c.lwq THEN [c EXCEPT !.res = Err("DanglingQuantifier", i)]
  ELSE [c EXCEPT !.out = Append(c.out, t), !.lwo = TRUE, !.lwq = TRUE]

\* the while loop of the binary arm: pop operators that bind at least as tight
RECURSIVE PopHigher(_, _, _)
PopHigher(out, ops, t) ==
  IF ops = <<>> THEN [out |-> out, ops |-> ops]
  ELSE LET top == Top(ops) IN
       IF top.op = "Bin" /\ is_bin_op(top.tok)
          /\ precedence(top.tok) >= precedence(t)
       THEN PopHigher(Append(out, top.tok), Pop(ops), t)
       ELSE [out |-> out, ops |-> ops]

\* Token::Concat | Token::Alt
BinStep(c, i, t) ==
  LET p == PopHigher(c.out, c.ops, t)
  IN [c EXCEPT !.out = p.out,
               !.ops = Append(p.ops, OpBin(t, i)),
               !.lwo = FALSE,
               !.lwq = FALSE]

\* one iteration of the for loop: token t at index i
PostfixStep(c, i, t) ==
  IF      t.k \in {"Char", "Dot", "Class"}   THEN OperandStep(c, t)
  ELSE IF t.k = "LParen"                     THEN LParenStep(c, i)
  ELSE IF t.k = "RParen"                     THEN RParenStep(c, i)
  ELSE IF t.k \in {"Star", "Plus", "Qmark"}  THEN QuantStep(c, i, t)
  ELSE IF t.k \in {"Concat", "Alt"}          THEN BinStep(c, i, t)
  ELSE [c EXCEPT !.res = Err("UnexpectedToken", i)]

RECURSIVE PostfixLoop(_, _, _)
PostfixLoop(toks, j, c) ==
  IF j > Len(toks) \/ ~c.res.ok THEN c
  ELSE PostfixLoop(toks, j + 1, PostfixStep(c, j - 1, toks[j]))

\* a flush that drops a '(' left on the operator stack
RECURSIVE PostfixFlushLenient(_, _)
PostfixFlushLenient(out, ops) ==
  IF ops = <<>> THEN Ok(out)
  ELSE LET top == Top(ops) IN
       IF top.op = "LParen" THEN PostfixFlushLenient(out, Pop(ops))
       ELSE PostfixFlushLenient(Append(out, top.tok), Pop(ops))

\* the final while loop: flush the operator stack
RECURSIVE PostfixFlush(_, _)
PostfixFlush(out, ops) ==
  IF ops = <<>> THEN Ok(out)
  ELSE LET top == Top(ops) IN
       IF top.op = "LParen" THEN Err("UnbalancedParen", top.pos)
       ELSE PostfixFlush(Append(out, top.tok), Pop(ops))

\* to_postfix with the lenient flush
to_postfix_lenient(toks) ==
  LET c == PostfixLoop(toks, 1, PostfixInit)
  IN IF ~c.res.ok THEN c.res ELSE PostfixFlushLenient(c.out, c.ops)

to_postfix(toks) ==
  LET c == PostfixLoop(toks, 1, PostfixInit)
  IN IF ~c.res.ok THEN c.res ELSE PostfixFlush(c.out, c.ops)

(***************************************************************************)
(* NFA builder (nfa.rs, build_nfa).                                        *)
(* An Option<usize> is None or the number itself; None is below every      *)
(* Some(n), as in the derived ordering of Option.                          *)
(***************************************************************************)
None == -1

\* enum Label
LEps          == [k |-> "Eps"]
LByte(b)      == [k |-> "Byte", b |-> b]
LAny          == [k |-> "Any"]
LClass(ranges, neg) == [k |-> "Class", ranges |-> ranges, neg |-> neg]
LCapBegin(g)  == [k |-> "CapBegin", g |-> g]
LCapEnd(g)    == [k |-> "CapEnd", g |-> g]

\* EdgeBuilder { label, to }; a finalized edge is the same record, to set
Edge(label, to) == [label |-> label, to |-> to]
\* Frag { start, outs }, outs a sequence of holes <<state id, edge index>>
Frag(start, outs) == [start |-> start, outs |-> outs]

\* new_state: the states with one more, edgeless, state; its id is the old length
new_state(states) == Append(states, <<>>)

\* StateBuilder::add_edge on state sid
add_edge(states, sid, label, to) ==
  [states EXCEPT ![sid + 1] = Append(@, Edge(label, to))]

\* hole: an edge with to = None on state sid; the hole is (sid, its index)
hole_of(states, sid) == <<sid, Len(states[sid + 1])>>
hole(states, sid, label) == add_edge(states, sid, label, None)

edge_to(states, sid, label, to) == add_edge(states, sid, label, to)

RECURSIVE patch(_, _, _)
patch(states, holes, target) ==
  IF holes = <<>> THEN states
  ELSE LET h == holes[1]
       IN patch([states EXCEPT ![h[1] + 1][h[2] + 1].to = target],
                Tail(holes), target)

\* the builder's locals: the states, the fragment stack (top last), the Err
BuildInit == [states |-> new_state(<<>>), st |-> <<>>, res |-> Ok(<<>>)]

\* make_unary_frag, pushed on the stack
make_unary_frag(bld, label) ==
  LET s   == Len(bld.states)
      sts == new_state(bld.states)
  IN [bld EXCEPT !.states = hole(sts, s, label),
                 !.st     = Append(bld.st, Frag(s, << hole_of(sts, s) >>))]

\* Token::Concat with a, b the two fragments popped (b on top)
ConcatFrag(bld, a, b, rest) ==
  [bld EXCEPT !.states = patch(bld.states, a.outs, b.start),
              !.st     = Append(rest, Frag(a.start, b.outs))]

\* Token::Alt
AltFrag(bld, a, b, rest) ==
  LET s   == Len(bld.states)
      st1 == edge_to(new_state(bld.states), s, LEps, a.start)
      st2 == edge_to(st1, s, LEps, b.start)
  IN [bld EXCEPT !.states = st2,
                 !.st     = Append(rest, Frag(s, a.outs \o b.outs))]

\* a Star arm that keeps the start of its operand, as the Plus arm does
StarFragKeepStart(bld, a, rest) ==
  LET s   == Len(bld.states)
      st1 == edge_to(new_state(bld.states), s, LEps, a.start)
      h   == hole_of(st1, s)
      st2 == hole(st1, s, LEps)
  IN [bld EXCEPT !.states = patch(st2, a.outs, s),
                 !.st     = Append(rest, Frag(a.start, << h >>))]

\* Token::Star
StarFrag(bld, a, rest) ==
  LET s   == Len(bld.states)
      st1 == edge_to(new_state(bld.states), s, LEps, a.start)
      h   == hole_of(st1, s)
      st2 == hole(st1, s, LEps)
  IN [bld EXCEPT !.states = patch(st2, a.outs, s),
                 !.st     = Append(rest, Frag(s, << h >>))]

\* Token::Plus
PlusFrag(bld, a, rest) ==
  LET s   == Len(bld.states)
      st1 == edge_to(new_state(bld.states), s, LEps, a.start)
      h   == hole_of(st1, s)
      st2 == hole(st1, s, LEps)
  IN [bld EXCEPT !.states = patch(st2, a.outs, s),
                 !.st     = Append(rest, Frag(a.start, << h >>))]

\* a Qmark arm that drops the outs of its operand
QmarkFragDropOuts(bld, a, rest) ==
  LET s   == Len(bld.states)
      st1 == edge_to(new_state(bld.states), s, LEps, a.start)
      h   == hole_of(st1, s)
      st2 == hole(st1, s, LEps)
  IN [bld EXCEPT !.states = st2,
                 !.st     = Append(rest, Frag(s, << h >>))]

\* Token::Qmark
QmarkFrag(bld, a, rest) ==
  LET s   == Len(bld.states)
      st1 == edge_to(new_state(bld.states), s, LEps, a.start)
      h   == hole_of(st1, s)
      st2 == hole(st1, s, LEps)
  IN [bld EXCEPT !.states = st2,
                 !.st     = Append(rest, Frag(s, Append(a.outs, h)))]

\* one iteration of the for loop: postfix token t at index i (pop1 and pop2
\* fail with UnexpectedToken at i when the stack is too short)
BuildStep(bld, i, t) ==
  LET n == Len(bld.st) IN
  IF      t.k = "Char"     THEN make_unary_frag(bld, LByte(t.b))
  ELSE IF t.k = "Dot"      THEN make_unary_frag(bld, LAny)
  ELSE IF t.k = "Class"    THEN make_unary_frag(bld, LClass(t.ranges, t.neg))
  ELSE IF t.k = "CapStart" THEN make_unary_frag(bld, LCapBegin(t.g))
  ELSE IF t.k = "CapEnd"   THEN make_unary_frag(bld, LCapEnd(t.g))
  ELSE IF t.k \in {"Concat", "Alt"} THEN
    IF n < 2 THEN [bld EXCEPT !.res = Err("UnexpectedToken", i)]
    ELSE IF t.k = "Concat"
         THEN ConcatFrag(bld, bld.st[n - 1], bld.st[n], SubSeq(bld.st, 1, n - 2))
         ELSE AltFrag(bld, bld.st[n - 1], bld.st[n], SubSeq(bld.st, 1, n - 2))
  ELSE IF t.k \in {"Star", "Plus", "Qmark"} THEN
    IF n < 1 THEN [bld EXCEPT !.res = Err("UnexpectedToken", i)]
    ELSE IF t.k = "Star"  THEN StarFrag(bld, bld.st[n], Pop(bld.st))
    ELSE IF t.k = "Plus"  THEN PlusFrag(bld, bld.st[n], Pop(bld.st))
    ELSE                       QmarkFrag(bld, bld.st[n], Pop(bld.st))
  ELSE [bld EXCEPT !.res = Err("UnbalancedParen", i)]

RECURSIVE BuildLoop(_, _, _)
BuildLoop(postfix, j, bld) ==
  IF j > Len(postfix) \/ ~bld.res.ok THEN bld
  ELSE BuildLoop(postfix, j + 1, BuildStep(bld, j - 1, postfix[j]))

\* finalize: an edge still unpatched makes expect() panic
Unpatched(states) ==
  \E s \in 1..Len(states) : \E e \in 1..Len(states[s]) : states[s][e].to = None

\* a finish that gives an empty postfix the automaton of the empty string
BuildFinishEmptyOk(bld, npostfix) ==
  IF Len(bld.st) = 0
  THEN Ok([states |-> << << Edge(LEps, 1) >>, <<>> >>, start |-> 0, accept |-> 1])
  ELSE IF Len(bld.st) # 1 THEN Err("UnexpectedToken", npostfix)
  ELSE LET top    == bld.st[1]
           accept == Len(bld.states)
           st1    == patch(new_state(bld.states), top.outs, accept)
           st2    == IF top.start # 0 THEN edge_to(st1, 0, LEps, top.start)
                     ELSE st1
       IN IF Unpatched(st2) THEN Err("Panic", npostfix)
          ELSE Ok([states |-> st2, start |-> 0, accept |-> accept])

\* after the loop: exactly one fragment, the accept state, the edge out of 0
BuildFinish(bld, npostfix) ==
  IF Len(bld.st) # 1 THEN Err("UnexpectedToken", npostfix)
  ELSE LET top    == bld.st[1]
           accept == Len(bld.states)
           st1    == patch(new_state(bld.states), top.outs, accept)
           st2    == IF top.start # 0 THEN edge_to(st1, 0, LEps, top.start)
                     ELSE st1
       IN IF Unpatched(st2) THEN Err("Panic", npostfix)
          ELSE Ok([states |-> st2, start |-> 0, accept |-> accept])

build_nfa(postfix) ==
  LET bld == BuildLoop(postfix, 1, BuildInit)
  IN IF ~bld.res.ok THEN bld.res ELSE BuildFinish(bld, Len(postfix))

\* Regex::new, after build_nfa: the largest group number on a capture edge
CapGids(states) ==
  UNION { { states[s][e].label.g :
            e \in { e \in 1..Len(states[s]) :
                    states[s][e].label.k \in {"CapBegin", "CapEnd"} } } :
          s \in 1..Len(states) }

\* a group count that numbers the whole-match slot as well
gmax_with_whole(states) ==
  LET G == CapGids(states)
  IN 1 + (IF G = {} THEN 0 ELSE CHOOSE g \in G : \A h \in G : h <= g)

gmax(states) ==
  LET G == CapGids(states)
  IN IF G = {} THEN 0 ELSE CHOOSE y \in G : \A z \in G : z <= y

\* Regex::new: Ok(Regex { states, start, accept, groups }) or the first Err
new(pat) ==
  LET toks == tokenize(pat) IN
  IF ~toks.ok THEN toks
  ELSE LET postfix == to_postfix(insert_concat(toks.v)) IN
       IF ~postfix.ok THEN postfix
       ELSE LET nfa == build_nfa(postfix.v) IN
            IF ~nfa.ok THEN nfa
            ELSE Ok([states |-> nfa.v.states, start |-> nfa.v.start,
                     accept |-> nfa.v.accept, groups |-> gmax(nfa.v.states)])

(***************************************************************************)
(* Matcher (lib.rs).                                                       *)
(* A GroupSlot is <<start, end>>, each None or an offset; caps[g + 1] is   *)
(* the slot of group g (slot 0 is unused).  A Thread is [s, caps].         *)
(* An Option of a candidate or of a string is a sequence of length 0 or 1. *)
(***************************************************************************)
Thread(s, caps) == [s |-> s, caps |-> caps]

\* slots that start at (0, 0) instead of (None, None)
ZeroCaps(groups) == [g \in 1..(groups + 1) |-> <<0, 0>>]

EmptyCaps(groups) == [g \in 1..(groups + 1) |-> <<None, None>>]

Min(x, y) == IF x <= y THEN x ELSE y

\* the first group in 1..len-1 whose endpoint e (1: start, 2: end) is set in
\* both and differs; 0 when there is none
FirstDiff(ga, gb, len, e) ==
  LET D == { g \in 1..(len - 1) : /\ ga[g + 1][e] # None
                                  /\ gb[g + 1][e] # None
                                  /\ ga[g + 1][e] # gb[g + 1][e] }
  IN IF D = {} THEN 0 ELSE CHOOSE g \in D : \A h \in D : g <= h

\* better_choice(a, b): a, b are <<end, caps>>
better_choice(a, b) ==
  IF a[1] # b[1] THEN a[1] > b[1]
  ELSE LET ga  == a[2]
           gb  == b[2]
           len == Min(Len(ga), Len(gb))
           gs  == FirstDiff(ga, gb, len, 1)
           ge  == FirstDiff(ga, gb, len, 2)
       IN IF gs # 0 THEN ga[gs + 1][1] > gb[gs + 1][1]
          ELSE IF ge # 0 THEN ga[ge + 1][2] > gb[ge + 1][2]
          ELSE FALSE

\* Vec<GroupSlot>::cmp, lexicographic; the two vectors have the same length
RECURSIVE CapsLess(_, _, _)
CapsLess(ca, cb, g) ==
  IF g > Len(ca) THEN FALSE
  ELSE IF ca[g][1] # cb[g][1] THEN ca[g][1] < cb[g][1]
  ELSE IF ca[g][2] # cb[g][2] THEN ca[g][2] < cb[g][2]
  ELSE CapsLess(ca, cb, g + 1)

\* a.s.cmp(&b.s).then_with(|| a.caps.cmp(&b.caps)) is Less
ThreadLess(a, b) == a.s < b.s \/ (a.s = b.s /\ CapsLess(a.caps, b.caps, 1))

\* v.sort_by(...): insertion of t into a sorted vector, after its equals
RECURSIVE SortedInsert(_, _)
SortedInsert(v, t) ==
  IF v = <<>> THEN << t >>
  ELSE IF ThreadLess(t, Top(v)) THEN Append(SortedInsert(Pop(v), t), Top(v))
  ELSE Append(v, t)

RECURSIVE SortThreads(_)
SortThreads(v) ==
  IF v = <<>> THEN <<>> ELSE SortedInsert(SortThreads(Pop(v)), Top(v))

\* v.dedup_by(...): drop an element equal to the one before it
RECURSIVE DedupAdjacent(_)
DedupAdjacent(v) ==
  IF Len(v) <= 1 THEN v
  ELSE LET r == DedupAdjacent(Pop(v))
       IN IF Top(r) = Top(v) THEN r ELSE Append(r, Top(v))

dedup_threads(v) == DedupAdjacent(SortThreads(v))

\* a closure whose CapBegin keeps a start that is already set
EpsSuccKeepFirst(thr, e, pos) ==
  IF e.label.k = "Eps" THEN << Thread(e.to, thr.caps) >>
  ELSE IF e.label.k = "CapBegin" THEN
    << Thread(e.to, IF e.label.g < Len(thr.caps)
                       /\ thr.caps[e.label.g + 1][1] = None
                    THEN [thr.caps EXCEPT ![e.label.g + 1][1] = pos]
                    ELSE thr.caps) >>
  ELSE IF e.label.k = "CapEnd" THEN
    << Thread(e.to, IF e.label.g < Len(thr.caps)
                    THEN [thr.caps EXCEPT ![e.label.g + 1][2] = pos]
                    ELSE thr.caps) >>
  ELSE <<>>

\* the threads an edge of thr's state enqueues in eps_closure at position pos
\* a closure whose CapEnd keeps an end that is already set
EpsSuccKeepEnd(thr, e, pos) ==
  IF e.label.k = "Eps" THEN << Thread(e.to, thr.caps) >>
  ELSE IF e.label.k = "CapBegin" THEN
    << Thread(e.to, IF e.label.g < Len(thr.caps)
                    THEN [thr.caps EXCEPT ![e.label.g + 1][1] = pos]
                    ELSE thr.caps) >>
  ELSE IF e.label.k = "CapEnd" THEN
    << Thread(e.to, IF e.label.g < Len(thr.caps)
                       /\ thr.caps[e.label.g + 1][2] = None
                    THEN [thr.caps EXCEPT ![e.label.g + 1][2] = pos]
                    ELSE thr.caps) >>
  ELSE <<>>

EpsSucc(thr, e, pos) ==
  IF e.label.k = "Eps" THEN << Thread(e.to, thr.caps) >>
  ELSE IF e.label.k = "CapBegin" THEN
    << Thread(e.to, IF e.label.g < Len(thr.caps)
                    THEN [thr.caps EXCEPT ![e.label.g + 1][1] = pos]
                    ELSE thr.caps) >>
  ELSE IF e.label.k = "CapEnd" THEN
    << Thread(e.to, IF e.label.g < Len(thr.caps)
                    THEN [thr.caps EXCEPT ![e.label.g + 1][2] = pos]
                    ELSE thr.caps) >>
  ELSE <<>>

RECURSIVE EpsSuccs(_, _, _, _)
EpsSuccs(thr, edges, j, pos) ==
  IF j > Len(edges) THEN <<>>
  ELSE EpsSucc(thr, edges[j], pos) \o EpsSuccs(thr, edges, j + 1, pos)

\* the worklist loop of eps_closure: q the queue, set the threads emitted
RECURSIVE ClosureLoop(_, _, _, _)
ClosureLoop(states, q, set, pos) ==
  IF q = <<>> THEN set
  ELSE LET thr == Head(q) IN
       IF \E j \in 1..Len(set) : set[j] = thr
       THEN ClosureLoop(states, Tail(q), set, pos)
       ELSE ClosureLoop(states,
                        Tail(q) \o EpsSuccs(thr, states[thr.s + 1], 1, pos),
                        Append(set, thr), pos)

eps_closure(states, set, pos) ==
  dedup_threads(ClosureLoop(states, set, <<>>, pos))

\* whether an edge label consumes byte b
ClassHit(ranges, b) ==
  \E j \in 1..Len(ranges) : ranges[j][1] <= b /\ b <= ranges[j][2]

\* a step that ignores the neg flag of a class
ConsumesNoNeg(label, b) ==
  \/ label.k = "Byte" /\ label.b = b
  \/ label.k = "Any"
  \/ label.k = "Class" /\ ClassHit(label.ranges, b)

Consumes(label, b) ==
  \/ label.k = "Byte" /\ label.b = b
  \/ label.k = "Any"
  \/ label.k = "Class" /\ LET hit == ClassHit(label.ranges, b)
                          IN (label.neg /\ ~hit) \/ (~label.neg /\ hit)

\* the accept check of run: offer the accepting threads of curr, in order
RECURSIVE select_best(_, _, _, _, _)
select_best(curr, j, accept, i, last) ==
  IF j > Len(curr) THEN last
  ELSE IF curr[j].s # accept THEN select_best(curr, j + 1, accept, i, last)
  ELSE LET cand == <<i, curr[j].caps>>
       IN select_best(curr, j + 1, accept, i,
                      IF last = <<>> THEN << cand >>
                      ELSE IF better_choice(cand, last[1]) THEN << cand >>
                      ELSE last)

\* the threads pushed to next for byte b, thread by thread, edge by edge
RECURSIVE StepEdges(_, _, _, _)
StepEdges(thr, edges, j, b) ==
  IF j > Len(edges) THEN <<>>
  ELSE (IF Consumes(edges[j].label, b)
        THEN << Thread(edges[j].to, thr.caps) >> ELSE <<>>)
       \o StepEdges(thr, edges, j + 1, b)

RECURSIVE StepThreads(_, _, _, _)
StepThreads(states, curr, j, b) ==
  IF j > Len(curr) THEN <<>>
  ELSE StepEdges(curr[j], states[curr[j].s + 1], 1, b)
       \o StepThreads(states, curr, j + 1, b)

\* str::is_char_boundary: offset 0, the length, or not a UTF-8 continuation
\* byte (0x80..0xBF); &hay[s..e] panics when s or e is not a boundary
is_char_boundary(hay, idx) ==
  \/ idx = 0
  \/ idx = Len(hay)
  \/ (idx < Len(hay) /\ (hay[idx + 1] < 128 \/ hay[idx + 1] >= 192))

\* the slot captures reports for group g of the chosen caps
SlotSet(caps, g, hay) ==
  /\ g < Len(caps)
  /\ caps[g + 1][1] # None
  /\ caps[g + 1][2] # None
  /\ caps[g + 1][1] <= caps[g + 1][2]
  /\ caps[g + 1][2] <= Len(hay)

\* a slice that ignores its start: hay[..e]
SliceFromZero(hay, s, e) == SubSeq(hay, 1, e)

Slice(hay, s, e) == SubSeq(hay, s + 1, e)

\* Regex::captures once run has returned last
captures_of(groups, hay, last) ==
  IF last = <<>> THEN [k |-> "None"]
  ELSE IF last[1][1] # Len(hay) THEN [k |-> "None"]
  ELSE LET caps == last[1][2] IN
    IF \E g \in 1..groups :
         /\ SlotSet(caps, g, hay)
         /\ ~(is_char_boundary(hay, caps[g + 1][1])
              /\ is_char_boundary(hay, caps[g + 1][2]))
    THEN [k |-> "Panic"]
    ELSE [k |-> "Some",
          v |-> [x \in 1..(groups + 1) |->
                   IF x = 1 THEN << hay >>
                   ELSE IF SlotSet(caps, x - 1, hay)
                        THEN << Slice(hay, caps[x][1], caps[x][2]) >>
                        ELSE <<>>]]

\* Regex::is_match: captures(hay).is_some()
is_match_of(res) == res.k = "Some"

(***************************************************************************)
(* The patterns and inputs of the model.                                   *)
(* A pattern is the text of an expression: a literal byte, '.', the empty  *)
(* group "()", a group "(x)", a quantified atom or group, a concatenation  *)
(* or an alternation.  Only a bracketed expression is quantified and an    *)
(* alternation is bracketed inside a concatenation, so the text parses     *)
(* back to the expression it was written from.                             *)
(***************************************************************************)
XChar(b)   == [k |-> "Char", b |-> b]
XDot       == [k |-> "Dot"]
XEmpty     == [k |-> "Empty"]
XGroup(x)  == [k |-> "Group", x |-> x]
XStar(x)   == [k |-> "Star", x |-> x]
XPlus(x)   == [k |-> "Plus", x |-> x]
XOpt(x)    == [k |-> "Opt", x |-> x]
XCat(l, r) == [k |-> "Cat", l |-> l, r |-> r]
XAlt(l, r) == [k |-> "Alt", l |-> l, r |-> r]
\* a pattern given as its bytes, written from no expression
XRaw(bytes) == [k |-> "Raw", bytes |-> bytes]

Atoms == {XChar(Ch.a), XChar(Ch.b), XDot, XEmpty}

Quantifiable(x) == x.k \in {"Char", "Dot", "Empty", "Group"}

\* the expressions of exactly n nodes
RECURSIVE Sized(_)
Sized(n) ==
  IF n = 1 THEN Atoms
  ELSE LET P == Sized(n - 1)
           Q == { x \in P : Quantifiable(x) }
       IN  { XGroup(x) : x \in P }
           \cup { XStar(x) : x \in Q }
           \cup { XPlus(x) : x \in Q }
           \cup { XOpt(x) : x \in Q }
           \cup UNION { { XCat(l, r) :
                          <<l, r>> \in { p \in Sized(m) \X Sized(n - 1 - m) :
                                         /\ p[1].k # "Alt"
                                         /\ p[2].k \notin {"Alt", "Cat"} } }
                        : m \in 1..(n - 2) }
           \cup UNION { { XAlt(l, r) :
                          <<l, r>> \in { p \in Sized(m) \X Sized(n - 1 - m) :
                                         p[2].k # "Alt" } }
                        : m \in 1..(n - 2) }

Upto(n) == UNION { Sized(m) : m \in 1..n }

\* the text of an expression
RECURSIVE Text(_)
Text(x) ==
  IF      x.k = "Raw"   THEN x.bytes
  ELSE IF x.k = "Char"  THEN << x.b >>
  ELSE IF x.k = "Dot"   THEN << Ch.dot >>
  ELSE IF x.k = "Empty" THEN << Ch.lparen, Ch.rparen >>
  ELSE IF x.k = "Group" THEN (<< Ch.lparen >> \o Text(x.x)) \o << Ch.rparen >>
  ELSE IF x.k = "Star"  THEN Append(Text(x.x), Ch.star)
  ELSE IF x.k = "Plus"  THEN Append(Text(x.x), Ch.plus)
  ELSE IF x.k = "Opt"   THEN Append(Text(x.x), Ch.qmark)
  ELSE IF x.k = "Cat"   THEN Text(x.l) \o Text(x.r)
  ELSE                       (Text(x.l) \o << Ch.alt >>) \o Text(x.r)

\* sub-expressions the families are built from
Words == { XCat(XChar(c), XChar(d)) : c, d \in {Ch.a, Ch.b} }
Sub   == Upto(MaxSub) \cup Words
Tails == {XChar(Ch.a), XChar(Ch.b), XDot}

\* (X)* and (X)+
RepFamily == { XStar(XGroup(x)) : x \in Sub } \cup { XPlus(XGroup(x)) : x \in Sub }
\* (X)? and (X)?Y
OptFamily == { XOpt(XGroup(x)) : x \in Sub }
             \cup { XCat(XOpt(XGroup(x)), y) : x \in Sub, y \in Tails }
\* X()Y, X() and ()Y; an alternation X would take the () into its right arm
Heads == { x \in Upto(MaxSub) : x.k # "Alt" }
EmptyFamily == { XCat(x, XEmpty) : x \in Heads }
               \cup { XCat(XEmpty, y) : y \in Tails }
               \cup { XCat(XCat(x, XEmpty), y) : x \in Heads, y \in Tails }
\* a quantified group of a quantified atom, such as (a+)*
NestFamily == { q : q \in
                  UNION { {XStar(XGroup(i)), XPlus(XGroup(i)), XOpt(XGroup(i))} :
                          i \in UNION { {XStar(c), XPlus(c), XOpt(c)} : c \in Tails } } }

\* every byte string of at most MaxRaw bytes over a few literal and meta bytes
RawBytes == {Ch.a, Ch.lparen, Ch.rparen, Ch.alt, Ch.star, Ch.lbrack,
             Ch.rbrack, Ch.bslash}

RECURSIVE BytesUpTo(_)
BytesUpTo(n) ==
  IF n = 0 THEN { <<>> }
  ELSE LET S == BytesUpTo(n - 1)
       IN S \cup { Append(s, c) : s \in S, c \in RawBytes }

RawFamily == { XRaw(s) : s \in BytesUpTo(MaxRaw) }

\* nested and sibling groups, such as (a(b))(a)
Letters == {XChar(Ch.a), XChar(Ch.b)}
NumberingFamily == { XCat(XGroup(XCat(x, XGroup(y))), XGroup(z)) :
                     x \in Letters, y \in Letters, z \in Letters }

\* an optional group before another group, such as (a)?(b)a
OptPairFamily == { XCat(XCat(XOpt(XGroup(x)), XGroup(y)), z) :
                   x \in Letters, y \in Letters, z \in Letters }

\* one bracketed class, positive and negated: [a] [^a] [ab] [a-b] [b-a] ...
ClassBodies == { << Ch.a >>, << Ch.b >>, << Ch.a, Ch.b >>,
                 << Ch.a, Ch.dash, Ch.b >>, << Ch.b, Ch.dash, Ch.a >> }
ClassFamily == { XRaw((<< Ch.lbrack >> \o body) \o << Ch.rbrack >>) :
                 body \in ClassBodies }
               \cup { XRaw((<< Ch.lbrack, Ch.caret >> \o body) \o << Ch.rbrack >>) :
                      body \in ClassBodies }

\* AB|CD, and the chains ABC and A|B|C, without parentheses
AltOfCats == { XAlt(XCat(a, b), XCat(c, d)) :
               a \in Letters, b \in Letters, c \in Letters, d \in Letters }
CatChains == { XCat(XCat(a, b), c) : a \in Letters, b \in Letters, c \in Letters }
AltChains == { XAlt(XAlt(a, b), c) : a \in Letters, b \in Letters, c \in Letters }
PrecedenceFamily == AltOfCats \cup CatChains \cup AltChains

Exprs == Upto(MaxNodes) \cup RepFamily \cup OptFamily \cup EmptyFamily
         \cup NestFamily \cup NumberingFamily \cup OptPairFamily
         \cup PrecedenceFamily \cup ClassFamily \cup RawFamily

\* the inputs: the UTF-8 strings over 'a', 'b' and the two-byte character
\* U+00E9 (0xC3 0xA9), of at most MaxHay bytes
Chars == { << Ch.a >>, << Ch.b >>, << 195, 169 >> }

RECURSIVE StrsUpTo(_)
StrsUpTo(n) ==
  IF n = 0 THEN { <<>> }
  ELSE LET S == StrsUpTo(n - 1)
       IN S \cup { s \o c : s \in S, c \in Chars }

Hays == { s \in StrsUpTo(MaxHay) : Len(s) <= MaxHay }

(***************************************************************************)
(* The state machine: one pattern is compiled by Regex::new, stage by      *)
(* stage, and captures is called on the compiled Regex.  A Regex is        *)
(* immutable (captures takes &self), so calls do not affect each other and *)
(* a behaviour follows one call.                                           *)
(***************************************************************************)
VARIABLES
  pc,       \* "new", "lexed", "concat", "postfix", "failed", "ready", "run",
            \* "ret", "done"
  expr,     \* the expression the pattern was written from
  pat,      \* the pattern text given to Regex::new
  toks,     \* the tokens, after tokenize and then after insert_concat
  postfix,  \* the output of to_postfix
  err,      \* the Err of Regex::new, when pc = "failed"
  re,       \* the compiled Regex { states, start, accept, groups }
  hay,      \* the input of the captures call
  curr,     \* run: the thread vector
  i,        \* run: the input position
  last,     \* run: the best candidate so far (an Option)
  result    \* what the captures call returned

vars == <<pc, expr, pat, toks, postfix, err, re, hay, curr, i, last, result>>

NoRegex == [states |-> <<>>, start |-> 0, accept |-> 0, groups |-> 0]
NotCalled == [k |-> "NotCalled"]

Init ==
  /\ expr \in Exprs
  /\ pat = Text(expr)
  /\ pc = "new"
  /\ toks = <<>>
  /\ postfix = <<>>
  /\ err = Ok(<<>>)
  /\ re = NoRegex
  /\ hay = <<>>
  /\ curr = <<>>
  /\ i = 0
  /\ last = <<>>
  /\ result = NotCalled

\* Regex::new going on with no tokens when the lexer fails
TokenizeSwallow ==
  /\ pc = "new"
  /\ LET r == tokenize(pat)
     IN toks' = IF r.ok THEN r.v ELSE <<>>
  /\ pc' = "lexed"
  /\ UNCHANGED <<expr, pat, postfix, err, re, hay, curr, i, last, result>>

\* Regex::new, line 61: tokenize(pat)?
Tokenize ==
  /\ pc = "new"
  /\ LET r == tokenize(pat)
     IN IF r.ok THEN /\ toks' = r.v
                     /\ pc' = "lexed"
                     /\ err' = err
        ELSE /\ err' = r
             /\ pc' = "failed"
             /\ toks' = toks
  /\ UNCHANGED <<expr, pat, postfix, re, hay, curr, i, last, result>>

\* Regex::new, line 62: insert_concat(&tokens)
InsertConcat ==
  /\ pc = "lexed"
  /\ toks' = insert_concat(toks)
  /\ pc' = "concat"
  /\ UNCHANGED <<expr, pat, postfix, err, re, hay, curr, i, last, result>>

\* Regex::new, line 63: to_postfix(&tokens)?
ToPostfix ==
  /\ pc = "concat"
  /\ LET r == to_postfix(toks)
     IN IF r.ok THEN /\ postfix' = r.v
                     /\ pc' = "postfix"
                     /\ err' = err
        ELSE /\ err' = r
             /\ pc' = "failed"
             /\ postfix' = postfix
  /\ UNCHANGED <<expr, pat, toks, re, hay, curr, i, last, result>>

\* Regex::new, lines 64-82: build_nfa(&postfix)?, gmax, Ok(Self { .. })
BuildNfa ==
  /\ pc = "postfix"
  /\ LET r == build_nfa(postfix)
     IN IF r.ok THEN /\ re' = [states |-> r.v.states, start |-> r.v.start,
                               accept |-> r.v.accept,
                               groups |-> gmax(r.v.states)]
                     /\ pc' = "ready"
                     /\ err' = err
        ELSE /\ err' = r
             /\ pc' = "failed"
             /\ re' = re
  /\ UNCHANGED <<expr, pat, toks, postfix, hay, curr, i, last, result>>

\* captures(hay) up to the loop of run: the start thread, closed at position 0
Captures(h) ==
  /\ pc = "ready"
  /\ hay' = h
  /\ curr' = eps_closure(re.states,
                         << Thread(re.start, EmptyCaps(re.groups)) >>, 0)
  /\ last' = <<>>
  /\ i' = 0
  /\ result' = NotCalled
  /\ pc' = "run"
  /\ UNCHANGED <<expr, pat, toks, postfix, err, re>>

\* a loop that also stops at the first accepting thread it has seen
StepStopAtAccept ==
  /\ pc = "run"
  /\ last' = select_best(curr, 1, re.accept, i, last)
  /\ IF i = Len(hay) \/ last' # <<>>
     THEN /\ pc' = "ret"
          /\ UNCHANGED <<curr, i>>
     ELSE LET next == StepThreads(re.states, curr, 1, hay[i + 1])
          IN IF next = <<>>
             THEN /\ pc' = "ret"
                  /\ UNCHANGED <<curr, i>>
             ELSE /\ curr' = dedup_threads(eps_closure(re.states, next, i + 1))
                  /\ i' = i + 1
                  /\ pc' = "run"
  /\ UNCHANGED <<expr, pat, toks, postfix, err, re, hay, result>>

\* one iteration of the while loop of run
Step ==
  /\ pc = "run"
  /\ last' = select_best(curr, 1, re.accept, i, last)
  /\ IF i = Len(hay)
     THEN /\ pc' = "ret"
          /\ UNCHANGED <<curr, i>>
     ELSE LET next == StepThreads(re.states, curr, 1, hay[i + 1])
          IN IF next = <<>>
             THEN /\ pc' = "ret"
                  /\ UNCHANGED <<curr, i>>
             ELSE /\ curr' = dedup_threads(eps_closure(re.states, next, i + 1))
                  /\ i' = i + 1
                  /\ pc' = "run"
  /\ UNCHANGED <<expr, pat, toks, postfix, err, re, hay, result>>

\* captures after run has returned: None, the capture vector, or a panic
Return ==
  /\ pc = "ret"
  /\ result' = captures_of(re.groups, hay, last)
  /\ pc' = "done"
  /\ UNCHANGED <<expr, pat, toks, postfix, err, re, hay, curr, i, last>>

Next ==
  \/ Tokenize
  \/ InsertConcat
  \/ ToPostfix
  \/ BuildNfa
  \/ \E h \in Hays : Captures(h)
  \/ Step
  \/ Return

Spec == Init /\ [][Next]_vars

(***************************************************************************)
(* The standard semantics of an expression, for stating the claims:        *)
(* Match(x, s) is whether byte string s belongs to the language of x.      *)
(***************************************************************************)
Prefix(s, k) == SubSeq(s, 1, k)
Suffix(s, k) == SubSeq(s, k + 1, Len(s))

RECURSIVE Match(_, _)
Match(x, s) ==
  IF      x.k = "Char"  THEN s = << x.b >>
  ELSE IF x.k = "Dot"   THEN Len(s) = 1
  ELSE IF x.k = "Empty" THEN s = <<>>
  ELSE IF x.k = "Group" THEN Match(x.x, s)
  ELSE IF x.k = "Opt"   THEN s = <<>> \/ Match(x.x, s)
  ELSE IF x.k = "Star"  THEN
    \/ s = <<>>
    \/ \E k \in 1..Len(s) : Match(x.x, Prefix(s, k)) /\ Match(x, Suffix(s, k))
  ELSE IF x.k = "Plus"  THEN
    \/ Match(x.x, s)
    \/ \E k \in 1..(Len(s) - 1) :
         Match(x.x, Prefix(s, k)) /\ Match(x, Suffix(s, k))
  ELSE IF x.k = "Cat"   THEN
    \E k \in 0..Len(s) : Match(x.l, Prefix(s, k)) /\ Match(x.r, Suffix(s, k))
  ELSE IF x.k = "Alt"   THEN Match(x.l, s) \/ Match(x.r, s)
  ELSE FALSE

\* the bodies of the groups of an expression, in the order of their opening
\* parentheses in its text
RECURSIVE GroupBodies(_)
GroupBodies(x) ==
  IF      x.k = "Empty" THEN << XEmpty >>
  ELSE IF x.k = "Group" THEN << x.x >> \o GroupBodies(x.x)
  ELSE IF x.k \in {"Star", "Plus", "Opt"} THEN GroupBodies(x.x)
  ELSE IF x.k \in {"Cat", "Alt"} THEN GroupBodies(x.l) \o GroupBodies(x.r)
  ELSE <<>>

Called == pc = "done"
Compiled == pc \in {"ready", "run", "ret", "done"}
\* some thread of curr is in the accept state and the whole input is consumed
AcceptAtEnd == i = Len(hay) /\ \E j \in 1..Len(curr) : curr[j].s = re.accept
\* the caps of the candidate run returned
ChosenCaps == last[1][2]

(***************************************************************************)
(* The claims.                                                             *)
(***************************************************************************)

\* C1: is_match(S) is true exactly when captures(S) is present, and that is
\* exactly when a thread is in the accept state once all bytes of S are
\* consumed (a match of a proper prefix of S yields absent).
WholeInputMatch ==
  Called => /\ is_match_of(result) <=> (result.k = "Some")
            /\ (result.k = "Some") <=> AcceptAtEnd

\* C2: for a pattern that compiles, is_match(S) is true iff S is in the
\* language of the pattern under the standard semantics.
MatchesLanguage ==
  (Called /\ expr.k # "Raw") => (is_match_of(result) <=> Match(expr, hay))

\* C3: captures and is_match complete without a panic on every input; the
\* only outcomes are a capture vector or absent.
NeverPanics == Called => result.k \in {"Some", "None"}

\* C4: a present result has groups + 1 slots, slot 0 is the whole input, and
\* slot g is the substring start..end of the chosen thread's slot g iff both
\* endpoints are set and start <= end <= len; otherwise it is absent.
CaptureVector ==
  (Called /\ result.k = "Some") =>
    /\ Len(result.v) = re.groups + 1
    /\ result.v[1] = << hay >>
    /\ \A g \in 1..re.groups :
         LET st == ChosenCaps[g + 1][1]
             en == ChosenCaps[g + 1][2]
         IN IF st # None /\ en # None /\ st <= en /\ en <= Len(hay)
            THEN result.v[g + 1] = << SubSeq(hay, st + 1, en) >>
            ELSE result.v[g + 1] = <<>>

\* C4 witness: a returned vector with one group absent and another holding a
\* non-empty substring
CaptureVectorWitness ==
  /\ Called
  /\ result.k = "Some"
  /\ \E g \in 1..re.groups : result.v[g + 1] = <<>>
  /\ \E g \in 1..re.groups :
       result.v[g + 1] # <<>> /\ result.v[g + 1][1] # <<>>
       /\ result.v[g + 1][1] # hay

NumLParens(ts) == Cardinality({ j \in 1..Len(ts) : ts[j].k = "LParen" })
CapStartGids(ts) ==
  LET sel == SelectSeq(ts, LAMBDA t : t.k = "CapStart")
  IN [j \in 1..Len(sel) |-> sel[j].g]

\* C5: groups are numbered 1, 2, 3, ... in the order of their opening
\* parentheses (outer before inner), the group count is the number of
\* opening parentheses, and captures returns 1 + groups slots; so slot g
\* holds text matched by the body of the g-th parenthesis.
GroupNumbering ==
  /\ Compiled =>
       /\ re.groups = NumLParens(toks)
       /\ CapStartGids(postfix) = [j \in 1..NumLParens(toks) |-> j]
  /\ (Called /\ result.k = "Some") =>
       /\ Len(result.v) = 1 + NumLParens(toks)
       /\ expr.k # "Raw" =>
            /\ Len(GroupBodies(expr)) = re.groups
            /\ \A g \in 1..re.groups :
                 result.v[g + 1] # <<>> =>
                   Match(GroupBodies(expr)[g], result.v[g + 1][1])

\* C5 witness: three groups, the second nested in the first, each reported
\* with its own text
GroupNumberingWitness ==
  /\ Called
  /\ result.k = "Some"
  /\ expr \in NumberingFamily
  /\ result.v[2] # <<>> /\ result.v[3] # <<>> /\ result.v[4] # <<>>
  /\ Len(result.v[2][1]) = 2
  /\ result.v[3][1] # result.v[4][1]

(***************************************************************************)
(* The greedy reading of an expression, for stating C6: Parses(x, ..)      *)
(* lists the ways x can match from offset p, as <<end, caps>>, a           *)
(* quantifier trying its operand before skipping it and a longer           *)
(* repetition before a shorter one.  g0 is the number of groups opened     *)
(* before x.                                                               *)
(***************************************************************************)
RECURSIVE Nullable(_)
Nullable(x) ==
  IF      x.k \in {"Char", "Dot"}         THEN FALSE
  ELSE IF x.k \in {"Empty", "Star", "Opt"} THEN TRUE
  ELSE IF x.k \in {"Group", "Plus"}       THEN Nullable(x.x)
  ELSE IF x.k = "Cat" THEN Nullable(x.l) /\ Nullable(x.r)
  ELSE IF x.k = "Alt" THEN Nullable(x.l) \/ Nullable(x.r)
  ELSE FALSE

\* expressions whose ways of matching differ only in what their quantifiers
\* take: no alternation, no quantified operand that can match nothing
RECURSIVE QuantifiersOnly(_)
QuantifiersOnly(x) ==
  IF      x.k \in {"Char", "Dot", "Empty"} THEN TRUE
  ELSE IF x.k = "Group" THEN QuantifiersOnly(x.x)
  ELSE IF x.k \in {"Star", "Plus", "Opt"}
       THEN ~Nullable(x.x) /\ QuantifiersOnly(x.x)
  ELSE IF x.k = "Cat" THEN QuantifiersOnly(x.l) /\ QuantifiersOnly(x.r)
  ELSE FALSE

RECURSIVE Parses(_, _, _, _, _)
RECURSIVE ParsesThen(_, _, _, _, _)
Parses(x, g0, h, p, caps) ==
  IF      x.k = "Char"  THEN IF p < Len(h) /\ h[p + 1] = x.b
                             THEN << <<p + 1, caps>> >> ELSE <<>>
  ELSE IF x.k = "Dot"   THEN IF p < Len(h) THEN << <<p + 1, caps>> >> ELSE <<>>
  ELSE IF x.k = "Empty" THEN << <<p, [caps EXCEPT ![g0 + 2] = <<p, p>>]>> >>
  ELSE IF x.k = "Group" THEN
    LET rs == Parses(x.x, g0 + 1, h, p, caps)
    IN [j \in 1..Len(rs) |->
          <<rs[j][1], [rs[j][2] EXCEPT ![g0 + 2] = <<p, rs[j][1]>>]>>]
  ELSE IF x.k = "Opt"   THEN Append(Parses(x.x, g0, h, p, caps), <<p, caps>>)
  ELSE IF x.k = "Star"  THEN
    Append(ParsesThen(SelectSeq(Parses(x.x, g0, h, p, caps),
                                LAMBDA r : r[1] > p), 1, x, g0, h),
           <<p, caps>>)
  ELSE IF x.k = "Plus"  THEN
    ParsesThen(Parses(x.x, g0, h, p, caps), 1, XStar(x.x), g0, h)
  ELSE IF x.k = "Cat"   THEN
    ParsesThen(Parses(x.l, g0, h, p, caps), 1, x.r,
               g0 + Len(GroupBodies(x.l)), h)
  ELSE <<>>

\* y after each of the ways rs, in order
ParsesThen(rs, j, y, g0, h) ==
  IF j > Len(rs) THEN <<>>
  ELSE Parses(y, g0, h, rs[j][1], rs[j][2]) \o ParsesThen(rs, j + 1, y, g0, h)

\* the caps of the first way that consumes the whole input
GreedyCaps(x, h) ==
  LET full == SelectSeq(Parses(x, 0, h, 0, EmptyCaps(Len(GroupBodies(x)))),
                        LAMBDA r : r[1] = Len(h))
  IN full[1][2]

\* C6: quantifiers are greedy in the reported captures: when the input can
\* be matched in several ways, the reported tuple is that of the way in
\* which the leftmost quantifier on which they differ takes the most.
GreedyCaptures ==
  (Called /\ AcceptAtEnd /\ expr.k # "Raw" /\ QuantifiersOnly(expr)) =>
    ChosenCaps = GreedyCaps(expr, hay)

\* C7: a group inside (X)+ or (X)* reports its last iteration: the slot ends
\* at the end of the input, spans a match of X, and what precedes it is the
\* earlier iterations; it is unset only when (X)* matched nothing.
LastIteration ==
  (Called /\ AcceptAtEnd /\ expr \in RepFamily) =>
    LET X  == expr.x.x
        st == ChosenCaps[2][1]
        en == ChosenCaps[2][2]
    IN IF st = None \/ en = None
       THEN /\ st = None /\ en = None
            /\ expr.k = "Star" /\ hay = <<>>
            /\ result.k = "Some" => result.v[2] = <<>>
       ELSE /\ en = Len(hay) /\ st <= en
            /\ Match(X, SubSeq(hay, st + 1, en))
            /\ Match(XStar(X), Prefix(hay, st))
            /\ result.k = "Some" => result.v[2] = << SubSeq(hay, st + 1, en) >>

\* C7 witness: (ab)+ on "abab" reports the second "ab", offsets 2..4
LastIterationWitness ==
  /\ Called
  /\ expr = XPlus(XGroup(XCat(XChar(Ch.a), XChar(Ch.b))))
  /\ hay = << Ch.a, Ch.b, Ch.a, Ch.b >>
  /\ ChosenCaps[2] = <<2, 4>>
  /\ result.k = "Some"
  /\ result.v[2] = << << Ch.a, Ch.b >> >>

\* the parts of a pattern (X)?Y or (X)?
OptBody(x) == IF x.k = "Opt" THEN x.x.x ELSE x.l.x.x
MatchTail(x, s) == IF x.k = "Opt" THEN s = <<>> ELSE Match(x.r, s)

\* C8: with an optional group (X)?, a match along the branch that skips X
\* leaves the slot absent (not the empty string), and a match through X
\* makes the slot the text X matched.
OptionalGroup ==
  (Called /\ AcceptAtEnd /\ expr \in OptFamily) =>
    LET st == ChosenCaps[2][1]
        en == ChosenCaps[2][2]
    IN IF st = None \/ en = None
       THEN /\ st = None /\ en = None
            /\ MatchTail(expr, hay)
            /\ result.k = "Some" => result.v[2] = <<>>
       ELSE /\ st = 0 /\ en <= Len(hay)
            /\ Match(OptBody(expr), Prefix(hay, en))
            /\ MatchTail(expr, Suffix(hay, en))
            /\ result.k = "Some" => result.v[2] = << Prefix(hay, en) >>

\* C8 witness: (ab)?a on "a" skips the group, whose slot is absent
OptionalGroupWitness ==
  /\ Called
  /\ expr = XCat(XOpt(XGroup(XCat(XChar(Ch.a), XChar(Ch.b)))), XChar(Ch.a))
  /\ hay = << Ch.a >>
  /\ result.k = "Some"
  /\ result.v[2] = <<>>

\* the parts of a pattern X()Y, X() or ()Y; a missing part matches ""
EmptyLeft(x)  == IF x.l.k = "Empty" THEN <<>>
                 ELSE IF x.r.k = "Empty" THEN << x.l >> ELSE << x.l.l >>
EmptyRight(x) == IF x.r.k = "Empty" THEN <<>> ELSE << x.r >>
MatchPart(part, s) == IF part = <<>> THEN s = <<>> ELSE Match(part[1], s)
\* the number of the empty group: one more than the groups of X
EmptyGid(x) ==
  IF EmptyLeft(x) = <<>> THEN 1 ELSE 1 + Len(GroupBodies(EmptyLeft(x)[1]))

\* C9: an empty group () compiles and consumes no input, and on a match its
\* slot is the empty string at the position where the group sits.
EmptyGroup ==
  expr \in EmptyFamily =>
    /\ pc # "failed"
    /\ Called =>
         (AcceptAtEnd <=>
            \E p \in 0..Len(hay) : /\ MatchPart(EmptyLeft(expr), Prefix(hay, p))
                                   /\ MatchPart(EmptyRight(expr), Suffix(hay, p)))
    /\ (Called /\ AcceptAtEnd) =>
         LET g  == EmptyGid(expr)
             st == ChosenCaps[g + 1][1]
             en == ChosenCaps[g + 1][2]
         IN /\ st # None /\ st = en
            /\ MatchPart(EmptyLeft(expr), Prefix(hay, st))
            /\ MatchPart(EmptyRight(expr), Suffix(hay, st))
            /\ result.k = "Some" => result.v[g + 1] = << <<>> >>

\* C9 witness: a()b on "ab" reports "" for group 1, at offset 1
EmptyGroupWitness ==
  /\ Called
  /\ expr = XCat(XCat(XChar(Ch.a), XEmpty), XChar(Ch.b))
  /\ hay = << Ch.a, Ch.b >>
  /\ ChosenCaps[2] = <<1, 1>>
  /\ result.k = "Some"
  /\ result.v[2] = << <<>> >>

\* the accepting threads of curr, in the order run offers them
Accepting == SelectSeq(curr, LAMBDA t : t.s = re.accept)

\* C10: the returned capture tuple does not depend on the order in which the
\* accepting threads are offered to the comparator: at the end of the input,
\* offering them in any other order returns the same tuple.
OrderIndependent ==
  (pc = "run" /\ i = Len(hay)) =>
    \A f \in Permutations(1..Len(Accepting)) :
      captures_of(re.groups, hay,
                  select_best([j \in 1..Len(Accepting) |-> Accepting[f[j]]], 1,
                              re.accept, i, last))
        = captures_of(re.groups, hay, select_best(curr, 1, re.accept, i, last))

\* the stages of Regex::new at which to_postfix has returned Ok
PostfixDone == pc \in {"postfix", "ready", "run", "ret", "done"}

\* C11: concatenation binds tighter than alternation and both associate to
\* the left: AB|CD becomes A B . C D . | and matches exactly AB and CD;
\* ABC becomes A B . C . and A|B|C becomes A B | C |.
Precedence ==
  /\ expr \in PrecedenceFamily => pc # "failed"
  /\ (expr \in AltOfCats /\ PostfixDone) =>
       postfix = << TChar(expr.l.l.b), TChar(expr.l.r.b), TConcat,
                    TChar(expr.r.l.b), TChar(expr.r.r.b), TConcat, TAlt >>
  /\ (expr \in AltOfCats /\ Called) =>
       (is_match_of(result) <=> \/ hay = << expr.l.l.b, expr.l.r.b >>
                                \/ hay = << expr.r.l.b, expr.r.r.b >>)
  /\ (expr \in CatChains /\ PostfixDone) =>
       postfix = << TChar(expr.l.l.b), TChar(expr.l.r.b), TConcat,
                    TChar(expr.r.b), TConcat >>
  /\ (expr \in AltChains /\ PostfixDone) =>
       postfix = << TChar(expr.l.l.b), TChar(expr.l.r.b), TAlt,
                    TChar(expr.r.b), TAlt >>

\* C11 witness: ab|ba has matched "ba"
PrecedenceWitness ==
  /\ Called
  /\ expr = XAlt(XCat(XChar(Ch.a), XChar(Ch.b)), XCat(XChar(Ch.b), XChar(Ch.a)))
  /\ postfix = << TChar(Ch.a), TChar(Ch.b), TConcat,
                  TChar(Ch.b), TChar(Ch.a), TConcat, TAlt >>
  /\ hay = << Ch.b, Ch.a >>
  /\ is_match_of(result)

\* the labels of the class edges of the compiled automaton
ClassLabels ==
  UNION { { re.states[sid][e].label :
              e \in { x \in 1..Len(re.states[sid]) :
                        re.states[sid][x].label.k = "Class" } } :
          sid \in 1..Len(re.states) }

\* byte b lies in one of the ranges
InRanges(ranges, b) ==
  \E r \in { ranges[j] : j \in 1..Len(ranges) } : r[1] <= b /\ b <= r[2]

\* C12: a class edge consumes byte b iff (b lies in one of its ranges) XOR
\* negated, for all 256 byte values, so a negated class consumes exactly the
\* bytes the positive class does not; a class whose only range is reversed
\* compiles and matches nothing.
ClassSemantics ==
  /\ expr \in ClassFamily => pc # "failed"
  /\ Compiled =>
       \A lbl \in ClassLabels : \A b \in 0..255 :
         /\ Consumes(lbl, b) <=> (InRanges(lbl.ranges, b) # lbl.neg)
         /\ Consumes(LClass(lbl.ranges, TRUE), b)
              <=> ~Consumes(LClass(lbl.ranges, FALSE), b)
  /\ (expr \in ClassFamily /\ Called) =>
       /\ Len(toks) = 1 /\ toks[1].k = "Class"
       /\ ClassLabels = { LClass(toks[1].ranges, toks[1].neg) }
       /\ is_match_of(result) <=>
            /\ Len(hay) = 1
            /\ InRanges(toks[1].ranges, hay[1]) # toks[1].neg
  /\ (expr = XRaw(<< Ch.lbrack, Ch.b, Ch.dash, Ch.a, Ch.rbrack >>) /\ Compiled) =>
       /\ ClassLabels = { LClass(<< <<Ch.b, Ch.a>> >>, FALSE) }
       /\ \A b \in 0..255 : \A lbl \in ClassLabels : ~Consumes(lbl, b)
       /\ Called => ~is_match_of(result)

\* C12 witness: [^a] has matched "b"
ClassSemanticsWitness ==
  /\ Called
  /\ expr = XRaw(<< Ch.lbrack, Ch.caret, Ch.a, Ch.rbrack >>)
  /\ ClassLabels = { LClass(<< <<Ch.a, Ch.a>> >>, TRUE) }
  /\ hay = << Ch.b >>
  /\ is_match_of(result)

(***************************************************************************)
(* Compilation alone: Regex::new on patterns enumerated byte by byte, with *)
(* no call of captures afterwards.                                         *)
(***************************************************************************)
RECURSIVE StringsOver(_, _)
StringsOver(A, n) ==
  IF n = 0 THEN { <<>> }
  ELSE LET S == StringsOver(A, n - 1)
       IN S \cup { Append(s, c) : s \in S, c \in A }

PatBytes   == {Ch.a, Ch.lparen, Ch.rparen, Ch.alt, Ch.star, Ch.plus, Ch.qmark,
               Ch.lbrack, Ch.rbrack, Ch.bslash, Ch.dash, Ch.caret}
ClassBytes == {Ch.a, Ch.b, Ch.rbrack, Ch.dash, Ch.caret}
QuantBytes == {Ch.a, Ch.lparen, Ch.rparen, Ch.alt, Ch.star, Ch.qmark}

ShortPatterns == StringsOver(PatBytes, MaxPat)
ClassPatterns == { << Ch.lbrack >> \o s : s \in StringsOver(ClassBytes, MaxClass) }
QuantPatterns == StringsOver(QuantBytes, MaxQuant)

CompilePatterns == ShortPatterns \cup ClassPatterns \cup QuantPatterns

CompileInit ==
  /\ expr \in { XRaw(s) : s \in CompilePatterns }
  /\ pat = Text(expr)
  /\ pc = "new"
  /\ toks = <<>>
  /\ postfix = <<>>
  /\ err = Ok(<<>>)
  /\ re = NoRegex
  /\ hay = <<>>
  /\ curr = <<>>
  /\ i = 0
  /\ last = <<>>
  /\ result = NotCalled

CompileNext ==
  \/ Tokenize
  \/ InsertConcat
  \/ ToPostfix
  \/ BuildNfa

CompileSpec == CompileInit /\ [][CompileNext]_vars

(***************************************************************************)
(* The reading of a bracketed class: the members of the text s that        *)
(* follows '[' (and '^'), from its byte k on; first says that byte k is    *)
(* the first content byte.                                                 *)
(***************************************************************************)
RECURSIVE Members(_, _, _, _)
Members(s, k, first, acc) ==
  IF k > Len(s) THEN [closed |-> FALSE, ranges |-> acc, rest |-> <<>>]
  ELSE IF s[k] = Ch.rbrack /\ ~first
       THEN [closed |-> TRUE, ranges |-> acc, rest |-> SubSeq(s, k + 1, Len(s))]
  ELSE IF k + 2 <= Len(s) /\ s[k + 1] = Ch.dash /\ s[k + 2] # Ch.rbrack
       THEN Members(s, k + 3, FALSE, Append(acc, <<s[k], s[k + 2]>>))
  ELSE Members(s, k + 1, FALSE, Append(acc, <<s[k], s[k]>>))

Negated(s) == s # <<>> /\ s[1] = Ch.caret
ClassOf(s) == Members(s, IF Negated(s) THEN 2 ELSE 1, TRUE, <<>>)

\* the text after the '[' of a bracketed-class pattern
Body == SubSeq(pat, 2, Len(pat))

\* C13: in a bracketed class, after an optional '^', a ']' that is the first
\* content byte is a member and the class ends at a later ']'; c1 '-' c2 with
\* c2 other than ']' is the range (c1, c2), any other c1 is the singleton
\* (c1, c1), so a '-' at the start or next to the closing ']' is a member.
ClassParsing ==
  /\ (pat \in ClassPatterns /\ pc = "lexed") =>
       /\ ClassOf(Body).closed
       /\ toks = << TClass(ClassOf(Body).ranges, Negated(Body)) >>
                 \o [j \in 1..Len(ClassOf(Body).rest) |->
                       TChar(ClassOf(Body).rest[j])]
  /\ (pat \in ClassPatterns /\ pc = "failed") => ~ClassOf(Body).closed
  /\ pc = "lexed" =>
       /\ pat = << Ch.lbrack, Ch.a, Ch.dash, Ch.rbrack >> =>
            toks = << TClass(<< <<Ch.a, Ch.a>>, <<Ch.dash, Ch.dash>> >>, FALSE) >>
       /\ pat = << Ch.lbrack, Ch.dash, Ch.a, Ch.rbrack >> =>
            toks = << TClass(<< <<Ch.dash, Ch.dash>>, <<Ch.a, Ch.a>> >>, FALSE) >>
       /\ pat = << Ch.lbrack, Ch.rbrack, Ch.a, Ch.rbrack >> =>
            toks = << TClass(<< <<Ch.rbrack, Ch.rbrack>>, <<Ch.a, Ch.a>> >>, FALSE) >>
       /\ pat = << Ch.lbrack, Ch.caret, Ch.rbrack, Ch.rbrack >> =>
            toks = << TClass(<< <<Ch.rbrack, Ch.rbrack>> >>, TRUE) >>
       /\ pat = << Ch.lbrack, Ch.a, Ch.dash, Ch.b, Ch.rbrack >> =>
            toks = << TClass(<< <<Ch.a, Ch.b>> >>, FALSE) >>

\* C13 witness: []a-] is lexed as the class of ']', 'a' and '-'
ClassParsingWitness ==
  /\ pc = "lexed"
  /\ pat = << Ch.lbrack, Ch.rbrack, Ch.a, Ch.dash, Ch.rbrack >>
  /\ toks = << TClass(<< <<Ch.rbrack, Ch.rbrack>>, <<Ch.a, Ch.a>>,
                         <<Ch.dash, Ch.dash>> >>, FALSE) >>

(***************************************************************************)
(* Defects of a pattern, read off the tokens of its text.                  *)
(***************************************************************************)
\* Regex::new has returned
Returned == pc \in {"failed", "ready"}
Lexes    == tokenize(pat).ok
\* the tokens of the pattern text (of a pattern that lexes)
PatToks  == tokenize(pat).v

IsQuant(t) == t.k \in {"Star", "Plus", "Qmark"}
\* token j is a quantifier that is first, follows '|' or follows a quantifier
Dangling(ts, j) ==
  /\ IsQuant(ts[j])
  /\ (j = 1 \/ ts[j - 1].k = "Alt" \/ IsQuant(ts[j - 1]))
DanglingAt(ts) == { j \in 1..Len(ts) : Dangling(ts, j) }
\* how many of the first k tokens are of kind kd
Count(ts, k, kd) == Cardinality({ j \in 1..k : ts[j].k = kd })
\* the first ')' with no '(' left open before it (a set of at most one index)
UnopenedAt(ts) ==
  { j \in 1..Len(ts) :
      /\ Count(ts, j, "RParen") > Count(ts, j, "LParen")
      /\ \A m \in 1..(j - 1) : Count(ts, m, "RParen") <= Count(ts, m, "LParen") }
\* the least element of a nonempty set of indices
Least(S) == CHOOSE j \in S : \A k \in S : j <= k

\* C14 as stated: a quantifier that is the first token, follows '|' or
\* follows another quantifier makes compilation fail with DanglingQuantifier;
\* a quantifier after an atom or after ')' is accepted.
DanglingQuantifier ==
  /\ (Returned /\ Lexes /\ DanglingAt(PatToks) # {}) =>
       (pc = "failed" /\ err.kind = "DanglingQuantifier")
  /\ (pc = "failed" /\ err.kind = "DanglingQuantifier") =>
       DanglingAt(PatToks) # {}

\* C14 amended: the same, for a pattern in which no ')' without an open '('
\* stands before the first such quantifier (that ')' is reported instead).
DanglingQuantifierFirst ==
  /\ (Returned /\ Lexes /\ DanglingAt(PatToks) # {}) =>
       /\ pc = "failed"
       /\ IF \E j \in UnopenedAt(PatToks) : j < Least(DanglingAt(PatToks))
          THEN err.kind = "UnbalancedParen"
          ELSE err.kind = "DanglingQuantifier"
  /\ (pc = "failed" /\ err.kind = "DanglingQuantifier") =>
       DanglingAt(PatToks) # {}
  /\ (Returned /\ pat \in { << Ch.a, Ch.star >>, << Ch.a, Ch.plus >>,
                            << Ch.a, Ch.qmark >>,
                            << Ch.lparen, Ch.a, Ch.rparen, Ch.star >>,
                            << Ch.lparen, Ch.a, Ch.rparen, Ch.qmark >> }) =>
       pc = "ready"

\* C14 witness: a** has failed with DanglingQuantifier at its second '*'
DanglingQuantifierWitness ==
  /\ pc = "failed"
  /\ pat = << Ch.a, Ch.star, Ch.star >>
  /\ err = Err("DanglingQuantifier", 2)

\* the quantifiers that directly follow a '('
AfterLParenAt(ts) ==
  { j \in 2..Len(ts) : IsQuant(ts[j]) /\ ts[j - 1].k = "LParen" }
\* every ')' closes a '(' and every '(' is closed
Balanced(ts) ==
  /\ UnopenedAt(ts) = {}
  /\ Count(ts, Len(ts), "LParen") = Count(ts, Len(ts), "RParen")

\* C15: a quantifier that immediately follows an opening parenthesis makes
\* compilation fail with DanglingQuantifier (stated for patterns that lex,
\* have balanced parentheses and no other misplaced quantifier).
QuantifierAfterParen ==
  (Returned /\ Lexes /\ AfterLParenAt(PatToks) # {}
     /\ Balanced(PatToks) /\ DanglingAt(PatToks) = {}) =>
    (pc = "failed" /\ err.kind = "DanglingQuantifier")

\* the index, in the token list to_postfix reads (0-based), of token j of
\* the pattern: the number of tokens before it once Concat is inserted
RECURSIVE NthToken(_, _, _)
NthToken(cs, j, k) ==
  IF cs[k].k # "Concat"
  THEN IF j = 1 THEN k - 1 ELSE NthToken(cs, j - 1, k + 1)
  ELSE NthToken(cs, j, k + 1)
PostfixIndex(ts, j) == NthToken(insert_concat(ts), j, 1)

\* the '(' that no later ')' closes
UnclosedAt(ts) ==
  { j \in 1..Len(ts) :
      /\ ts[j].k = "LParen"
      /\ \A k \in j..Len(ts) :
           Count(ts, k, "LParen") - Count(ts, j - 1, "LParen")
             > Count(ts, k, "RParen") - Count(ts, j - 1, "RParen") }
Greatest(S) == CHOOSE j \in S : \A k \in S : k <= j

\* C16: a pattern that lexes and has no dangling quantifier but unbalanced
\* parentheses fails with UnbalancedParen and nothing else, in to_postfix:
\* the first ')' with no open '(' is reported where it stands; otherwise the
\* '(' left open is reported once the tokens are exhausted.
UnbalancedParens ==
  (Returned /\ Lexes /\ DanglingAt(PatToks) = {} /\ ~Balanced(PatToks)) =>
    /\ pc = "failed"
    /\ err.kind = "UnbalancedParen"
    /\ postfix = <<>> /\ re = NoRegex
    /\ IF UnopenedAt(PatToks) # {}
       THEN err.pos = PostfixIndex(PatToks, Least(UnopenedAt(PatToks)))
       ELSE err.pos = PostfixIndex(PatToks, Greatest(UnclosedAt(PatToks)))

\* C16 witness: (a))( has failed at its second ')', the later '(' unreported
UnbalancedParensWitness ==
  /\ pc = "failed"
  /\ pat = << Ch.lparen, Ch.a, Ch.rparen, Ch.rparen, Ch.lparen >>
  /\ err = Err("UnbalancedParen", 3)

\* the defect the lexer meets first in text p from byte k on: an escape
\* '\' with no byte after it, or a '[' whose class is not closed
RECURSIVE LexDefect(_, _)
LexDefect(p, k) ==
  IF k > Len(p) THEN "none"
  ELSE IF p[k] = Ch.bslash
       THEN IF k = Len(p) THEN "UnexpectedEof" ELSE LexDefect(p, k + 2)
  ELSE IF p[k] = Ch.lbrack
       THEN LET c == ClassOf(SubSeq(p, k + 1, Len(p)))
            IN IF c.closed THEN LexDefect(p, Len(p) - Len(c.rest) + 1)
               ELSE "UnbalancedClass"
  ELSE LexDefect(p, k + 1)

\* C17: the lexer fails in exactly two situations: an escape '\' that is the
\* last byte gives UnexpectedEof, and a '[' whose class is not closed by a
\* ']' after at least one content byte gives UnbalancedClass; Regex::new
\* returns that error as it is, and no later stage has run.
LexerFailures ==
  /\ pc # "new" =>
       IF LexDefect(pat, 1) = "none"
       THEN /\ Lexes
            /\ pc = "failed" => err.kind \notin {"UnexpectedEof", "UnbalancedClass"}
       ELSE /\ pc = "failed"
            /\ err = tokenize(pat)
            /\ err.kind = LexDefect(pat, 1)
            /\ toks = <<>> /\ postfix = <<>> /\ re = NoRegex
  /\ pc = "failed" =>
       /\ pat = << Ch.bslash >> => err.kind = "UnexpectedEof"
       /\ pat = << Ch.a, Ch.bslash >> => err.kind = "UnexpectedEof"
       /\ pat = << Ch.lbrack, Ch.rbrack >> => err.kind = "UnbalancedClass"
       /\ pat = << Ch.lbrack, Ch.a, Ch.b >> => err.kind = "UnbalancedClass"
       /\ pat = << Ch.lbrack, Ch.caret, Ch.rbrack >> => err.kind = "UnbalancedClass"
  /\ pat \in { << Ch.bslash >>, << Ch.a, Ch.bslash >>, << Ch.lbrack, Ch.rbrack >>,
               << Ch.lbrack, Ch.a, Ch.b >>, << Ch.lbrack, Ch.caret, Ch.rbrack >> } =>
       pc \in {"new", "failed"}

\* C17 witness: [] has failed in the lexer with UnbalancedClass
LexerFailuresWitness ==
  /\ pc = "failed"
  /\ pat = << Ch.lbrack, Ch.rbrack >>
  /\ err.kind = "UnbalancedClass"
  /\ toks = <<>> /\ postfix = <<>>

\* every token of the pattern is one byte: no escape and no class
OneBytePerToken == \A k \in 1..Len(pat) : pat[k] \notin {Ch.bslash, Ch.lbrack}

\* C18: the pos of an error is the 0-based byte offset, in the pattern, of
\* the place where the defect was detected: for DanglingQuantifier and
\* UnbalancedParen the offset of the offending quantifier or parenthesis
\* (stated for patterns whose tokens are single bytes, where token j stands
\* at offset j - 1).
ErrorPosition ==
  (pc = "failed" /\ Lexes /\ OneBytePerToken) =>
    /\ err.pos <= Len(pat)
    /\ err.kind = "DanglingQuantifier" =>
         err.pos = Least(DanglingAt(PatToks)) - 1
    /\ err.kind = "UnbalancedParen" =>
         err.pos = (IF UnopenedAt(PatToks) # {}
                    THEN Least(UnopenedAt(PatToks))
                    ELSE Greatest(UnclosedAt(PatToks))) - 1

\* the candidates run compares at position i: the accepting threads of
\* curr, and the incumbent
Candidates ==
  { <<i, Accepting[j].caps>> : j \in 1..Len(Accepting) }
  \cup { last[j] : j \in 1..Len(last) }

\* C19: better_choice is a strict total order on the accepting candidates:
\* irreflexive, asymmetric, transitive, and of two candidates that differ
\* exactly one is better than the other.
StrictTotalOrder ==
  pc = "run" =>
    \A a \in Candidates : \A b \in Candidates :
      /\ ~better_choice(a, a)
      /\ better_choice(a, b) => ~better_choice(b, a)
      /\ a # b => (better_choice(a, b) \/ better_choice(b, a))
      /\ \A c \in Candidates :
           (better_choice(a, b) /\ better_choice(b, c)) => better_choice(a, c)

\* the builder of build_nfa after the first k tokens of postfix
BuilderAfter(k) == BuildLoop(SubSeq(postfix, 1, k), 1, BuildInit)

\* the holes <<state id, edge index>> of the states that are not patched
UnpatchedHoles(states) ==
  UNION { { <<sid - 1, e - 1>> :
              e \in { x \in 1..Len(states[sid]) : states[sid][x].to = None } } :
          sid \in 1..Len(states) }

\* the places <<fragment, index>> of the fragment stack whose out is hole h
Owners(st, h) ==
  UNION { { <<f, o>> : o \in { x \in 1..Len(st[f].outs) : st[f].outs[x] = h } } :
          f \in 1..Len(st) }

\* C20: while build_nfa runs, each unpatched hole is in the outs of exactly
\* one fragment on the stack; when it returns an NFA every hole has been
\* patched (the expect of finalize does not fire) and every edge's target is
\* an index into the state vector.
HolesPatched ==
  /\ \A k \in 0..Len(postfix) :
       LET bld == BuilderAfter(k)
       IN bld.res.ok =>
            \A h \in UnpatchedHoles(bld.states) :
              Cardinality(Owners(bld.st, h)) = 1
  /\ pc = "postfix" =>
       LET r == build_nfa(postfix) IN ~r.ok => r.kind # "Panic"
  /\ pc = "failed" => err.kind # "Panic"
  /\ pc = "ready" =>
       /\ UnpatchedHoles(re.states) = {}
       /\ \A sid \in 1..Len(re.states) : \A e \in 1..Len(re.states[sid]) :
            re.states[sid][e].to \in 0..(Len(re.states) - 1)

\* C20 witness: a?|a is built, three holes being open after its third token
HolesPatchedWitness ==
  /\ pc = "ready"
  /\ pat = << Ch.a, Ch.qmark, Ch.alt, Ch.a >>
  /\ Len(BuilderAfter(3).st) = 2
  /\ Cardinality(UnpatchedHoles(BuilderAfter(3).states)) = 3
  /\ UnpatchedHoles(re.states) = {}

\* the edges <<state id, edge index>> of the compiled automaton whose label
\* is of kind kd; for a capture kind, those of group g
EdgesOfKind(kd) ==
  UNION { { <<sid - 1, e - 1>> :
              e \in { x \in 1..Len(re.states[sid]) :
                        re.states[sid][x].label.k = kd } } :
          sid \in 1..Len(re.states) }
CapEdges(kd, g) ==
  { h \in EdgesOfKind(kd) : re.states[h[1] + 1][h[2] + 1].label.g = g }

\* C21: in every compiled NFA each group 1..groups has exactly one
\* CapBegin(g) edge and exactly one CapEnd(g) edge, and there are groups
\* CapBegin edges and groups CapEnd edges in all.
CapturePairs ==
  pc = "ready" =>
    /\ \A g \in 1..re.groups :
         /\ Cardinality(CapEdges("CapBegin", g)) = 1
         /\ Cardinality(CapEdges("CapEnd", g)) = 1
    /\ Cardinality(EdgesOfKind("CapBegin")) = re.groups
    /\ Cardinality(EdgesOfKind("CapEnd")) = re.groups

\* C21 witness: ()(a) is compiled, with two groups
CapturePairsWitness ==
  /\ pc = "ready"
  /\ pat = << Ch.lparen, Ch.rparen, Ch.lparen, Ch.a, Ch.rparen >>
  /\ re.groups = 2
  /\ Cardinality(CapEdges("CapBegin", 2)) = 1
  /\ Cardinality(CapEdges("CapEnd", 2)) = 1

\* the states one edge away from a state of S without consuming input
ZeroSucc(S) ==
  UNION { { re.states[s + 1][e].to :
              e \in { x \in 1..Len(re.states[s + 1]) :
                        re.states[s + 1][x].label.k
                          \in {"Eps", "CapBegin", "CapEnd"} } } :
          s \in S }

\* the states reachable from S through epsilon and capture edges alone
RECURSIVE ZeroReach(_)
ZeroReach(S) ==
  LET T == S \cup ZeroSucc(S) IN IF T = S THEN S ELSE ZeroReach(T)

\* group g can be opened and closed without consuming input: the source of a
\* CapEnd(g) edge is reachable from the target of the CapBegin(g) edge
ZeroPath(g) ==
  \E b \in CapEdges("CapBegin", g), c \in CapEdges("CapEnd", g) :
    c[1] \in ZeroReach({ re.states[b[1] + 1][b[2] + 1].to })

Structured == expr.k # "Raw"

\* C22 as stated: no group other than a literal () has a path from its
\* CapBegin to its CapEnd that consumes no input.
NoZeroLengthGroup ==
  (pc = "ready" /\ Structured) =>
    \A g \in 1..re.groups :
      GroupBodies(expr)[g].k # "Empty" => ~ZeroPath(g)

\* C22: a group has a path from its CapBegin to its CapEnd through epsilon
\* and capture edges alone exactly when its body can match the empty string;
\* a body that cannot match the empty string forces a consuming edge.
ZeroLengthIffNullable ==
  (pc = "ready" /\ Structured) =>
    /\ re.groups = Len(GroupBodies(expr))
    /\ \A g \in 1..re.groups :
         ZeroPath(g) <=> Nullable(GroupBodies(expr)[g])

\* C22 witness: (a*)* is compiled; its group closes over no input, while the
\* group of (a)* which is compiled as well cannot
ZeroLengthWitness ==
  /\ pc = "ready"
  /\ expr = XStar(XGroup(XStar(XChar(Ch.a))))
  /\ ZeroPath(1)
  /\ Nullable(GroupBodies(expr)[1])

\* the control of the while loop of run: an iteration either leaves the loop
\* or goes on to the next byte. From pc = "run" the only step of Next is Step,
\* and every Step is such a step, so fairness of LoopStep over <<pc, i>> is
\* fairness of Step, stated over the control variables alone
LoopStep ==
  /\ pc = "run"
  /\ pc' \in {"run", "ret"}
  /\ i' \in 0..Len(hay)

\* the program under its sequential scheduling: run is one thread of control,
\* so an iteration of its loop that can be taken is taken, and so is the
\* return of captures
FairSpec == Spec /\ WF_<<pc, i>>(LoopStep) /\ WF_vars(Return)

\* the number of threads eps_closure takes off its worklist before the
\* worklist is empty, counted along the loop of ClosureLoop
RECURSIVE ClosurePops(_, _, _, _)
ClosurePops(states, q, set, pos) ==
  IF q = <<>> THEN 0
  ELSE LET thr == Head(q) IN
       IF \E j \in 1..Len(set) : set[j] = thr
       THEN 1 + ClosurePops(states, Tail(q), set, pos)
       ELSE 1 + ClosurePops(states,
                            Tail(q) \o EpsSuccs(thr, states[thr.s + 1], 1, pos),
                            Append(set, thr), pos)

\* the most edges a state has
MaxDegree(states) ==
  LET D == { Len(states[s]) : s \in 1..Len(states) }
  IN CHOOSE d \in D : \A e \in D : e <= d

NoRepeat(v) == \A j, k \in 1..Len(v) : j # k => v[j] # v[k]

\* a closure started with q empties its worklist: it emits no thread twice
\* and takes off the worklist only q and the successors of what it emitted
WorklistEmpties(q, pos) ==
  LET out == ClosureLoop(re.states, q, <<>>, pos)
  IN /\ NoRepeat(out)
     /\ ClosurePops(re.states, q, <<>>, pos)
          <= Len(q) + Len(out) * MaxDegree(re.states)

\* the closure that the program runs next: that of the start thread when
\* captures is about to be called, that of next when the loop is to step
ClosuresEmpty ==
  /\ pc = "ready" =>
       WorklistEmpties(<< Thread(re.start, EmptyCaps(re.groups)) >>, 0)
  /\ (pc = "run" /\ i < Len(hay)) =>
       WorklistEmpties(StepThreads(re.states, curr, 1, hay[i + 1]), i + 1)

\* i counts the iterations completed: the loop body runs at most n + 1 times,
\* and it is left only with the input exhausted or with no thread to carry on
LoopBounded ==
  /\ pc \in {"run", "ret", "done"} => i <= Len(hay)
  /\ pc = "ret" =>
       \/ i = Len(hay)
       \/ StepThreads(re.states, curr, 1, hay[i + 1]) = <<>>

\* C23: for every compiled pattern and every input, captures terminates:
\* every eps_closure worklist empties, cycles of epsilon and capture edges
\* included, the loop of run is left after at most n + 1 iterations, and a
\* call that has started returns.
CapturesTerminates ==
  /\ [](ClosuresEmpty /\ LoopBounded)
  /\ (pc = "run") ~> (pc = "done")

\* C23 witness: captures has returned for (a*)*, whose automaton has a cycle
\* of epsilon and capture edges, on an input of two bytes
CapturesTerminatesWitness ==
  /\ pc = "done"
  /\ expr = XStar(XGroup(XStar(XChar(Ch.a))))
  /\ hay = << Ch.a, Ch.a >>
  /\ i = 2
  /\ \E s \in ZeroReach({re.start}) : s \in ZeroReach(ZeroSucc({s}))

\* C24: after every closure and byte step the current set holds at most
\* states * 2^groups distinct (state, caps) threads, a number that depends on
\* the compiled pattern alone and not on the input.
ThreadBound ==
  pc = "run" => Len(curr) <= Len(re.states) * 2^re.groups

\* the ')' that closes the '(' at index j of ts
ClosingOf(ts, j) ==
  Least({ k \in (j + 1)..Len(ts) :
            Count(ts, k, "RParen") - Count(ts, j, "RParen")
              = 1 + Count(ts, k, "LParen") - Count(ts, j, "LParen") })

\* the tokens between the '(' at j and its ')'
BodyOf(ts, j) == SubSeq(ts, j + 1, ClosingOf(ts, j) - 1)

\* a postfix sequence with its group numbers raised by d
ShiftGids(ps, d) ==
  [m \in 1..Len(ps) |->
     IF ps[m].k \in {"CapStart", "CapEnd"}
     THEN [ps[m] EXCEPT !.g = @ + d] ELSE ps[m]]

\* what the claim says group g with body B is emitted as
GroupEmitted(g, B) ==
  IF B = <<>>
  THEN << TCapStart(g), TCapEnd(g), TConcat >>
  ELSE << TCapStart(g) >> \o ShiftGids(to_postfix(B).v, g)
         \o << TConcat, TCapEnd(g), TConcat >>

Occurs(sub, seq) ==
  \E m \in 0..(Len(seq) - Len(sub)) : SubSeq(seq, m + 1, m + Len(sub)) = sub

\* C25: on a successful to_postfix every group g with a well-formed
\* non-empty body B is emitted as CapStart(g), postfix(B), Concat, CapEnd(g),
\* Concat, every empty group as CapStart(g), CapEnd(g), Concat, and the
\* output holds no LParen and no RParen.
GroupLayout ==
  pc = "postfix" =>
    /\ \A j \in { m \in 1..Len(toks) : toks[m].k = "LParen" } :
         LET B == BodyOf(toks, j) IN
         (B = <<>> \/ to_postfix(B).ok) =>
           Occurs(GroupEmitted(Count(toks, j, "LParen"), B), postfix)
    /\ \A m \in 1..Len(postfix) : postfix[m].k \notin {"LParen", "RParen"}

\* C25 witness: ((a)) is converted: the outer group, whose body is the group
\* (a), and the inner one are both laid out as claimed
GroupLayoutWitness ==
  /\ pc = "postfix"
  /\ pat = << Ch.lparen, Ch.lparen, Ch.a, Ch.rparen, Ch.rparen >>
  /\ postfix = << TCapStart(1), TCapStart(2), TChar(Ch.a), TConcat, TCapEnd(2),
                  TConcat, TConcat, TCapEnd(1), TConcat >>
  /\ BodyOf(toks, 1) = << TLParen, TChar(Ch.a), TRParen >>

\* a token sequence with its Concat tokens deleted
DeleteConcat(ts) == SelectSeq(ts, LAMBDA t : t.k # "Concat")

\* the pairs p, t the claim names
JoinedPair(p, t) ==
  /\ p.k \in {"Char", "Dot", "RParen", "Class", "Star", "Plus", "Qmark"}
  /\ t.k \in {"Char", "Dot", "LParen", "Class"}

\* C26: insert_concat puts a Concat between two adjacent tokens p, t exactly
\* when p is Char, Dot, RParen, Class, Star, Plus or Qmark and t is Char, Dot,
\* LParen or Class; it adds nothing else, so deleting the Concat tokens gives
\* back the input, and applying it to its own output changes nothing.
ConcatInsertion ==
  pc = "concat" =>
    /\ DeleteConcat(toks) = PatToks
    /\ \A m \in 1..Len(toks) :
         toks[m].k = "Concat" =>
           /\ 1 < m /\ m < Len(toks)
           /\ JoinedPair(toks[m - 1], toks[m + 1])
    /\ \A m \in 1..(Len(toks) - 1) :
         (toks[m].k # "Concat" /\ toks[m + 1].k # "Concat") =>
           ~JoinedPair(toks[m], toks[m + 1])
    /\ Len(toks) = Len(PatToks)
         + Cardinality({ j \in 1..(Len(PatToks) - 1) :
                           JoinedPair(PatToks[j], PatToks[j + 1]) })
    /\ insert_concat(toks) = toks

\* C26 witness: a*(a) gets its one Concat after the quantifier
ConcatInsertionWitness ==
  /\ pc = "concat"
  /\ pat = << Ch.a, Ch.star, Ch.lparen, Ch.a, Ch.rparen >>
  /\ toks = << TChar(Ch.a), TStar, TConcat, TLParen, TChar(Ch.a), TRParen >>

\* a slot of a thread at position p: both endpoints unset, or both set with
\* start <= end <= p
SlotClosed(slot, p) ==
  \/ slot[1] = None /\ slot[2] = None
  \/ /\ slot[1] # None /\ slot[2] # None
     /\ slot[1] <= slot[2] /\ slot[2] <= p

\* C27: in every thread that is in the accept state at position p each slot
\* has both endpoints unset or both set with start <= end <= p, so the chosen
\* caps have no fully set slot that the range guard of captures discards.
AcceptedSlotsClosed ==
  /\ pc = "run" =>
       \A j \in 1..Len(curr) :
         curr[j].s = re.accept =>
           \A g \in 1..Len(curr[j].caps) : SlotClosed(curr[j].caps[g], i)
  /\ (pc \in {"ret", "done"} /\ last # <<>>) =>
       /\ last[1][1] <= Len(hay)
       /\ \A g \in 1..Len(last[1][2]) :
            /\ SlotClosed(last[1][2][g], last[1][1])
            /\ (last[1][2][g][1] # None /\ last[1][2][g][2] # None) =>
                 (last[1][2][g][1] <= last[1][2][g][2]
                    /\ last[1][2][g][2] <= Len(hay))

\* C27 witness: (a)* on aaa has an accepting thread at position 3 whose
\* group was entered a third time, its slot being (2, 3)
AcceptedSlotsWitness ==
  /\ pc = "run"
  /\ expr = XStar(XGroup(XChar(Ch.a)))
  /\ i = 3
  /\ \E j \in 1..Len(curr) :
       curr[j].s = re.accept /\ curr[j].caps[2] = << 2, 3 >>

\* the '|' tokens with nothing on one side: first or last token, next to
\* another '|', right after '(' or right before ')'
EmptySideAt(ts) ==
  { j \in 1..Len(ts) :
      /\ ts[j].k = "Alt"
      /\ \/ j = 1
         \/ j = Len(ts)
         \/ ts[j - 1].k \in {"Alt", "LParen"}
         \/ ts[j + 1].k \in {"Alt", "RParen"} }

\* the pattern lacks an operand: it is empty, or its parentheses balance, no
\* quantifier dangles and an alternation has an empty side
LacksOperand ==
  /\ Lexes
  /\ \/ PatToks = <<>>
     \/ /\ Balanced(PatToks)
        /\ DanglingAt(PatToks) = {}
        /\ EmptySideAt(PatToks) # {}

\* C28: a pattern that lacks an operand (the empty pattern, or a balanced
\* pattern without dangling quantifier in which an alternation has an empty
\* side) is rejected by Regex::new with kind UnexpectedToken and is never
\* compiled.
MissingOperand ==
  /\ LacksOperand => pc # "ready"
  /\ (Returned /\ LacksOperand) =>
       (pc = "failed" /\ err.kind = "UnexpectedToken")

\* C28 witness: (a|) has been rejected with UnexpectedToken
MissingOperandWitness ==
  /\ pc = "failed"
  /\ pat = << Ch.lparen, Ch.a, Ch.alt, Ch.rparen >>
  /\ EmptySideAt(PatToks) = {3}
  /\ err.kind = "UnexpectedToken"

=============================================================================
